---- MODULE Spec2Model ----
(***************************************************************************)
(* Model of the volatility engine of src/lib/volatility.ts: true range,    *)
(* Average True Range, the static volatility stop and the trailing stop.   *)
(*                                                                         *)
(* JavaScript numbers are modelled as exact rationals [n, d] in lowest     *)
(* terms with d > 0.  Prices are drawn in eighths, which are exact binary  *)
(* fractions and carry three decimals, so Number(x.toFixed(2)) is not the  *)
(* identity on them.  NaN and the infinities are not modelled: prices are  *)
(* positive and periods are at least 1.                                    *)
(***************************************************************************)
EXTENDS Integers, Sequences, FiniteSets, TLC

\* ------------------------------------------------------------------------
\* Bounds of the model
\* ------------------------------------------------------------------------
MaxLen == 4

MaxPeriod == 2

\* ------------------------------------------------------------------------
\* Numbers
\* ------------------------------------------------------------------------
IAbs(x) == IF x < 0 THEN -x ELSE x

RECURSIVE GCD(_, _)
GCD(a, b) == IF b = 0 THEN a ELSE GCD(b, a % b)

Norm(n, d) ==
    LET s == IF d < 0 THEN -1 ELSE 1
        g == GCD(IAbs(n), IAbs(d))
    IN  [n |-> (s * n) \div g, d |-> (s * d) \div g]

R(n, d) == Norm(n, d)

Num(k) == [n |-> k, d |-> 1]

RAdd(a, b) == Norm(a.n * b.d + b.n * a.d, a.d * b.d)

RSub(a, b) == Norm(a.n * b.d - b.n * a.d, a.d * b.d)

RMul(a, b) ==
    LET x == Norm(a.n, b.d)
        y == Norm(b.n, a.d)
    IN  Norm(x.n * y.n, x.d * y.d)

\* a / b for b # 0
RDiv(a, b) == RMul(a, Norm(b.d, b.n))

RLt(a, b) == a.n * b.d < b.n * a.d

RLe(a, b) == a.n * b.d <= b.n * a.d

RGt(a, b) == RLt(b, a)

RGe(a, b) == RLe(b, a)

\* Math.abs
MathAbs(a) == [n |-> IAbs(a.n), d |-> a.d]

\* Math.max and Math.min of two numbers
MathMax(a, b) == IF RLt(a, b) THEN b ELSE a

MathMin(a, b) == IF RLt(b, a) THEN b ELSE a

\* Number(x.toFixed(2)): the nearest multiple of 1/100, a tie going away
\* from zero (toFixed rounds the magnitude and picks the larger candidate).
ToFixed2(x) ==
    LET m == IAbs(x.n)
        q == m \div x.d
        r == m % x.d
        h == q * 100 + ((r * 200 + x.d) \div (2 * x.d))
    IN  Norm(IF x.n < 0 THEN -h ELSE h, 100)

\* ------------------------------------------------------------------------
\* Inputs
\* ------------------------------------------------------------------------
\* (high, low, close) of the daily points a series is built from, in eighths
PointValues ==
    { <<80, 80, 80>>, <<64, 64, 64>>, <<82, 79, 81>>, <<72, 64, 72>> }

\* the multipliers a caller passes (2.0 is the default)
Multipliers == { R(1, 2), Num(1), Num(2) }

StockData(i, v) ==
    [date |-> 100 + i, high |-> R(v[1], 8), low |-> R(v[2], 8), close |-> R(v[3], 8)]

SeriesOfLen(n) ==
    { [i \in 1..n |-> StockData(i, f[i])] : f \in [1..n -> PointValues] }

AllSeries == UNION { SeriesOfLen(n) : n \in 0..MaxLen }

\* the default period of calculateATR and calculateVolatilityStopTrailing
DefaultPeriod == 14

\* the series of the two documented scenarios of the default period: ten and
\* fifteen daily points with high = low = close = 100
ScenarioSeries ==
    { [i \in 1..n |-> StockData(i, <<800, 800, 800>>)] : n \in {10, 15} }

\* Array.prototype.reverse on a copy of the series
Reverse(s) == [j \in 1..Len(s) |-> s[Len(s) + 1 - j]]

\* JavaScript indexes arrays from 0
At(s, i) == s[i + 1]

\* Array.prototype.slice(0, k)
SliceTo(s, k) == [j \in 1..(IF k < Len(s) THEN k ELSE Len(s)) |-> s[j]]

\* the multipliers, prices and ATR values passed to the static stop
CurrentPrices == { Num(100), Num(8), R(81, 8), Num(1000) }

AtrValues == { Num(0), Num(3), Num(5), R(1, 8) }

\* calls whose percentage lies within half a hundredth of a threshold:
\* 2.997 and 10.004
ThresholdCalls ==
    { <<Num(1000), R(2997, 100), Num(1)>>, <<Num(1000), R(10004, 100), Num(1)>> }

\* the arguments calculateVolatilityStop is called with
StopCalls == (CurrentPrices \X AtrValues \X Multipliers) \cup ThresholdCalls

TrueRangeInputs == { Num(8), Num(10), R(81, 8) }

\* ------------------------------------------------------------------------
\* State
\* ------------------------------------------------------------------------
VARIABLES
    data,           \* the price series the series functions are called on
    atrPeriod,      \* the period argument
    multiplier,     \* the multiplier argument of the trailing stop
    pc,             \* "idle" before the call, "loop" inside the loop of
                    \* calculateVolatilityStopTrailing, "done" after the call
    op,             \* the function called last
    args,           \* the scalar arguments of the call, <<>> for a series call
    err,            \* the Error thrown by the call, if any
    num,            \* the number returned by calculateTrueRange / calculateATR
    stop,           \* the VolatilityStop returned by calculateVolatilityStop
    results,        \* results[] of calculateVolatilityStopTrailing
    i,              \* its loop index
    previousStop,   \* its previousStop
    trend,          \* its trend
    atr,            \* its atr
    closes,         \* the closes the moving averages are computed from
    dmaIn,          \* price, moving averages and recent history classified
    dmaOut,         \* what the trend and signal classifier returned
    symbol,         \* the symbol a service is selected for
    providerEnv,    \* process.env.STOCK_API_PROVIDER
    service,        \* the service getStockServiceForSymbol returned
    formatted,      \* what successive calls of formatSymbol returned
    batchSymbols,   \* the symbols a batch of prices is asked for
    batchEntry,     \* the function the caller called
    batchPc,        \* where the batch fetch is
    nseSymbols,     \* symbols of NSEService.batchFetchPrices
    nseResponse,    \* the response to its batch request
    nsePrices,      \* its prices map
    batchK,         \* the index of the loop the batch fetch is in
    batchQueue,     \* the symbols batchFetchPrices fetches one at a time
    batchPrices,    \* the prices map the caller receives
    batchFetched,   \* the requests for one stock made so far, in order,
                    \* each with its response
    postBody,       \* the body of the POST request
    postPc,         \* where the POST handler is
    postIndex,      \* the index of the stock its loop is at
    postResults,    \* its results
    postErrors,     \* its errors
    postResponse,   \* the response it returned
    sortField,      \* sortField of the batch page
    sortDirection,  \* its sortDirection
    sortArg,        \* the field handleSort was called with last
    sortClicks,     \* the number of handleSort calls so far
    isCalculating,  \* its isCalculating
    isRunning,      \* its isRunning
    calcPending,    \* the calculateVolatilityStops calls that have not ended
    runPending,     \* the runBatchJob calls that have not ended
    calcButtonDisabled,\* disabled of the first button as rendered
    runButtonDisabled,\* disabled of the second button as rendered
    toast           \* the toast shown last

volatilityVars ==
    <<data, atrPeriod, multiplier, pc, op, args, err, num, stop, results,
      i, previousStop, trend, atr>>

dmaVars == <<closes, dmaIn, dmaOut>>

providerVars == <<symbol, providerEnv, service, formatted>>

batchVars ==
    <<batchSymbols, batchEntry, batchPc, nseSymbols, nseResponse, nsePrices,
      batchK, batchQueue, batchPrices, batchFetched>>

postVars ==
    <<postBody, postPc, postIndex, postResults, postErrors, postResponse>>

pageVars ==
    <<sortField, sortDirection, sortArg, sortClicks, isCalculating, isRunning,
      calcPending, runPending, calcButtonDisabled, runButtonDisabled, toast>>

vars ==
    <<volatilityVars,
      dmaVars,
      providerVars,
      batchVars,
      postVars,
      pageVars>>

\* the variables the volatility functions never touch
OutsideVolatility ==
    <<dmaVars, providerVars, batchVars, postVars, pageVars>>

\* the variables the trend and signal classifier never touches
OutsideDMA ==
    <<volatilityVars, providerVars, batchVars, postVars, pageVars>>

\* the variables the provider selection never touches
OutsideProvider ==
    <<volatilityVars, dmaVars, batchVars, postVars, pageVars>>

\* the variables the batch price fetch never touches
OutsideBatch ==
    <<volatilityVars, dmaVars, providerVars, postVars, pageVars>>

\* the variables the POST handler never touches
OutsidePost ==
    <<volatilityVars, dmaVars, providerVars, batchVars, pageVars>>

\* the variables the batch page never touches
OutsidePage ==
    <<volatilityVars, dmaVars, providerVars, batchVars, postVars>>

NoError == [thrown |-> FALSE, need |-> 0, what |-> ""]

\* the numbers the message of a thrown Error names:
\* "Need at least ${period + 1} data points to calculate ..."
MessageNumbers(e) == IF e.thrown THEN {e.need} ELSE {}

NoStop == [atr |-> Num(0), stopLoss |-> Num(0), stopLossPercentage |-> Num(0),
           recommendation |-> ""]

\* ------------------------------------------------------------------------
\* calculateTrueRange
\* ------------------------------------------------------------------------
TrueRangeSigned(high, low, previousClose) ==
    MathMax(MathMax(RSub(high, low), RSub(high, previousClose)),
            RSub(low, previousClose))

\* the true range with the high taken for the high-low range
TrueRangeHighForRange(high, low, previousClose) ==
    MathMax(MathMax(high, MathAbs(RSub(high, previousClose))),
            MathAbs(RSub(low, previousClose)))

calculateTrueRange(high, low, previousClose) ==
    LET highLow == RSub(high, low)
        highPrevClose == MathAbs(RSub(high, previousClose))
        lowPrevClose == MathAbs(RSub(low, previousClose))
    IN  MathMax(MathMax(highLow, highPrevClose), lowPrevClose)

\* ------------------------------------------------------------------------
\* calculateATR
\* ------------------------------------------------------------------------
ATRNeedsMoreOffByOne(n, period) == n < period

\* the guard of calculateATR: true when it throws
ATRNeedsMore(n, period) == n < period + 1

\* the first loop: one true range per adjacent pair, in order
TrueRangesOf(d) ==
    [j \in 1..(Len(d) - 1) |->
        calculateTrueRange(At(d, j).high, At(d, j).low, At(d, j - 1).close)]

\* reduce((sum, tr) => sum + tr, 0)
RECURSIVE ReduceSum(_, _, _)
ReduceSum(s, j, sum) ==
    IF j > Len(s) THEN sum ELSE ReduceSum(s, j + 1, RAdd(sum, s[j]))

InitialATR(trueRanges, period) ==
    RDiv(ReduceSum(SliceTo(trueRanges, period), 1, Num(0)), Num(period))

SmoothStepSwapped(a, tr, period) ==
    RDiv(RAdd(a, RMul(tr, Num(period - 1))), Num(period))

\* one pass of the smoothing loop body
SmoothStep(a, tr, period) ==
    RDiv(RAdd(RMul(a, Num(period - 1)), tr), Num(period))

\* the smoothing loop from JavaScript index j
RECURSIVE Smooth(_, _, _, _)
Smooth(a, trueRanges, j, period) ==
    IF j < Len(trueRanges)
    THEN Smooth(SmoothStep(a, At(trueRanges, j), period), trueRanges, j + 1, period)
    ELSE a

\* the value calculateATR returns when it does not throw
calculateATR(d, period) ==
    LET trueRanges == TrueRangesOf(d)
    IN  Smooth(InitialATR(trueRanges, period), trueRanges, period, period)

\* ------------------------------------------------------------------------
\* calculateVolatilityStop
\* ------------------------------------------------------------------------
RecommendationNonStrict(stopLossPercentage) ==
    IF RGe(stopLossPercentage, Num(10)) THEN "SELL"
    ELSE IF RLe(stopLossPercentage, Num(3)) THEN "BUY"
    ELSE "HOLD"

Recommendation(stopLossPercentage) ==
    IF RGt(stopLossPercentage, Num(10)) THEN "SELL"
    ELSE IF RLt(stopLossPercentage, Num(3)) THEN "BUY"
    ELSE "HOLD"

StaticStopLossAbove(currentPrice, a, m) == RAdd(currentPrice, RMul(a, m))

StaticStopLoss(currentPrice, a, m) == RSub(currentPrice, RMul(a, m))

\* the distance as a fraction, not scaled to percent
StaticStopLossFraction(currentPrice, stopLoss) ==
    RDiv(RSub(currentPrice, stopLoss), currentPrice)

StaticStopLossPercentage(currentPrice, stopLoss) ==
    RMul(RDiv(RSub(currentPrice, stopLoss), currentPrice), Num(100))

\* the recommendation decided on the rounded percentage
calculateVolatilityStopDecidesOnRounded(currentPrice, a, m) ==
    LET stopLoss == StaticStopLoss(currentPrice, a, m)
        stopLossPercentage == StaticStopLossPercentage(currentPrice, stopLoss)
    IN  [atr |-> ToFixed2(a),
         stopLoss |-> ToFixed2(stopLoss),
         stopLossPercentage |-> ToFixed2(stopLossPercentage),
         recommendation |-> Recommendation(ToFixed2(stopLossPercentage))]

calculateVolatilityStop(currentPrice, a, m) ==
    LET stopLoss == StaticStopLoss(currentPrice, a, m)
        stopLossPercentage == StaticStopLossPercentage(currentPrice, stopLoss)
    IN  [atr |-> ToFixed2(a),
         stopLoss |-> ToFixed2(stopLoss),
         stopLossPercentage |-> ToFixed2(stopLossPercentage),
         recommendation |-> Recommendation(stopLossPercentage)]

\* ------------------------------------------------------------------------
\* calculateVolatilityStopTrailing
\* ------------------------------------------------------------------------
\* the loop starting one point late
LoopStartLate(period) == period + 1

\* the index the loop starts at
LoopStart(period) == period

\* the ATR of the warm-up window alone
TrailingATRWarmUpOnly(d, period) == calculateATR(SliceTo(d, period + 1), period)

\* const atr = calculateATR(data, atrPeriod), once before the loop
TrailingATR(d, period) == calculateATR(d, period)

TrailingNeedsMoreOffByOne(n, period) == n < period

\* the guard of calculateVolatilityStopTrailing: true when it throws
TrailingNeedsMore(n, period) == n < period + 1

UpTrendStepFlipOnEqual(prevStop, currentPrice, stopUp, stopDown) ==
    IF RLe(currentPrice, prevStop)
    THEN [trend |-> "DOWN", stopLoss |-> stopDown]
    ELSE [trend |-> "UP", stopLoss |-> MathMax(prevStop, stopUp)]

UpTrendStepNoRatchet(prevStop, currentPrice, stopUp, stopDown) ==
    IF RLt(currentPrice, prevStop)
    THEN [trend |-> "DOWN", stopLoss |-> stopDown]
    ELSE [trend |-> "UP", stopLoss |-> stopUp]

\* the UP branch without the flip to DOWN
UpTrendStepKeepsTrend(prevStop, currentPrice, stopUp, stopDown) ==
    [trend |-> "UP", stopLoss |-> MathMax(prevStop, stopUp)]

\* the branch of the loop body taken while the trend is UP
UpTrendStep(prevStop, currentPrice, stopUp, stopDown) ==
    IF RLt(currentPrice, prevStop)
    THEN [trend |-> "DOWN", stopLoss |-> stopDown]
    ELSE [trend |-> "UP", stopLoss |-> MathMax(prevStop, stopUp)]

DownTrendStepFlipOnEqual(prevStop, currentPrice, stopUp, stopDown) ==
    IF RGe(currentPrice, prevStop)
    THEN [trend |-> "UP", stopLoss |-> stopUp]
    ELSE [trend |-> "DOWN", stopLoss |-> MathMin(prevStop, stopDown)]

\* the branch of the loop body taken while the trend is DOWN
DownTrendStep(prevStop, currentPrice, stopUp, stopDown) ==
    IF RGt(currentPrice, prevStop)
    THEN [trend |-> "UP", stopLoss |-> stopUp]
    ELSE [trend |-> "DOWN", stopLoss |-> MathMin(prevStop, stopDown)]

InitialStepDown(stopUp) == [trend |-> "DOWN", stopLoss |-> stopUp]

\* the first pass of the loop (i === atrPeriod)
InitialStep(stopUp) == [trend |-> "UP", stopLoss |-> stopUp]

\* trend and stop loss of one pass of the loop
TrendAndStop(first, tr, prevStop, currentPrice, stopUp, stopDown) ==
    IF first THEN InitialStep(stopUp)
    ELSE IF tr = "UP" THEN UpTrendStep(prevStop, currentPrice, stopUp, stopDown)
    ELSE DownTrendStep(prevStop, currentPrice, stopUp, stopDown)

TrailingPercentage(currentPrice, stopLoss) ==
    MathAbs(RMul(RDiv(RSub(currentPrice, stopLoss), currentPrice), Num(100)))

\* the signal decided without the distance test
SignalWithoutDistance(tr, currentPrice, stopLoss, stopLossPercentage) ==
    IF tr = "UP" /\ RGt(currentPrice, stopLoss) THEN "BUY"
    ELSE IF tr = "DOWN" /\ RLt(currentPrice, stopLoss) THEN "SELL"
    ELSE "HOLD"

\* the signal of one pass of the loop
Signal(tr, currentPrice, stopLoss, stopLossPercentage) ==
    IF tr = "UP" /\ RGt(currentPrice, stopLoss)
    THEN (IF RLt(stopLossPercentage, Num(3)) THEN "BUY" ELSE "HOLD")
    ELSE IF tr = "DOWN" /\ RLt(currentPrice, stopLoss)
    THEN (IF RLt(stopLossPercentage, Num(3)) THEN "SELL" ELSE "HOLD")
    ELSE "HOLD"

\* the object pushed to results
ResultPoint(point, currentPrice, a, stopLoss, stopLossPercentage, tr, signal) ==
    [date |-> point.date,
     close |-> ToFixed2(currentPrice),
     atr |-> ToFixed2(a),
     stopLoss |-> ToFixed2(stopLoss),
     stopLossPercentage |-> ToFixed2(stopLossPercentage),
     trend |-> tr,
     signal |-> signal]

\* ------------------------------------------------------------------------
\* Initial state and calls
\* ------------------------------------------------------------------------
\* no call of a volatility function made yet
VolatilityIdle ==
    /\ pc = "idle"
    /\ op = "none"
    /\ args = <<>>
    /\ err = NoError
    /\ num = Num(0)
    /\ stop = NoStop
    /\ results = <<>>
    /\ i = 0
    /\ previousStop = Num(0)
    /\ trend = "UP"
    /\ atr = Num(0)

NoHistory ==
    [ma200Flat |-> FALSE, priceCrossedAbove200 |-> FALSE,
     ma50CrossedAbove150 |-> FALSE, ma50CrossedBelow150 |-> FALSE,
     nearResistance |-> FALSE]

NoDMAIn ==
    [price |-> Num(0), ma50 |-> Num(0), ma150 |-> Num(0), ma200 |-> Num(0),
     recentHistory |-> NoHistory]

NoDMAOut ==
    [op |-> "none", ma50 |-> Num(0), ma150 |-> Num(0), ma200 |-> Num(0),
     trend |-> "", signal |-> "", strength |-> ""]

\* no call of the classifier made and nothing given to it
DMAIdle ==
    /\ closes = <<>>
    /\ dmaIn = NoDMAIn
    /\ dmaOut = NoDMAOut

\* process.env.STOCK_API_PROVIDER: unset, or a string
Unset == [set |-> FALSE, value |-> <<>>]
SetTo(s) == [set |-> TRUE, value |-> s]

NoService == "none"

\* no service selected, no symbol formatted and nothing given to either
ProviderIdle ==
    /\ symbol = <<>>
    /\ providerEnv = Unset
    /\ service = NoService
    /\ formatted = <<>>

EmptyMap == [x \in {} |-> 0]

NoResponse == [kind |-> "none", entries |-> <<>>]

\* no batch of prices asked for
BatchIdle ==
    /\ batchSymbols = <<>>
    /\ batchEntry = "none"
    /\ batchPc = "idle"
    /\ nseSymbols = <<>>
    /\ nseResponse = NoResponse
    /\ nsePrices = EmptyMap
    /\ batchK = 0
    /\ batchQueue = <<>>
    /\ batchPrices = EmptyMap
    /\ batchFetched = <<>>

NoPostResponse ==
    [status |-> 0, success |-> FALSE, results |-> <<>>, errors |-> <<>>,
     totalProcessed |-> 0, totalSuccessful |-> 0, totalFailed |-> 0]

\* no POST request made
PostIdle ==
    /\ postBody = [isArray |-> FALSE, stocks |-> <<>>]
    /\ postPc = "idle"
    /\ postIndex = 0
    /\ postResults = <<>>
    /\ postErrors = <<>>
    /\ postResponse = NoPostResponse

Null == "null"

\* the batch page as mounted
PageIdle ==
    /\ sortField = Null
    /\ sortDirection = Null
    /\ sortArg = Null
    /\ sortClicks = 0
    /\ isCalculating = FALSE
    /\ isRunning = FALSE
    /\ calcPending = 0
    /\ runPending = 0
    /\ calcButtonDisabled = FALSE
    /\ runButtonDisabled = FALSE
    /\ toast = ""

\* the volatility functions are neither called nor given anything
VolatilityUnused ==
    /\ data = <<>>
    /\ atrPeriod = DefaultPeriod
    /\ multiplier = Num(1)
    /\ VolatilityIdle

Init ==
    /\ \/ data \in AllSeries /\ atrPeriod \in 1..MaxPeriod
       \/ data \in ScenarioSeries /\ atrPeriod = DefaultPeriod
    /\ multiplier \in Multipliers
    /\ VolatilityIdle
    /\ DMAIdle
    /\ ProviderIdle
    /\ BatchIdle
    /\ PostIdle
    /\ PageIdle

Inputs == <<data, atrPeriod, multiplier>>

Locals == <<i, previousStop, trend, atr>>

CallTrueRange ==
    /\ pc = "idle"
    /\ \E high \in TrueRangeInputs, low \in TrueRangeInputs,
          previousClose \in TrueRangeInputs :
          /\ args' = <<high, low, previousClose>>
          /\ num' = calculateTrueRange(high, low, previousClose)
    /\ op' = "calculateTrueRange"
    /\ err' = NoError
    /\ stop' = NoStop
    /\ results' = <<>>
    /\ pc' = "done"
    /\ UNCHANGED <<Inputs, Locals, OutsideVolatility>>

CallATR ==
    /\ pc = "idle"
    /\ op' = "calculateATR"
    /\ args' = <<>>
    /\ IF ATRNeedsMore(Len(data), atrPeriod)
       THEN /\ err' = [thrown |-> TRUE, need |-> atrPeriod + 1, what |-> "ATR"]
            /\ num' = Num(0)
       ELSE /\ err' = NoError
            /\ num' = calculateATR(data, atrPeriod)
    /\ stop' = NoStop
    /\ results' = <<>>
    /\ pc' = "done"
    /\ UNCHANGED <<Inputs, Locals, OutsideVolatility>>

CallVolatilityStop ==
    /\ pc = "idle"
    /\ \E call \in StopCalls :
          /\ args' = call
          /\ stop' = calculateVolatilityStop(call[1], call[2], call[3])
    /\ op' = "calculateVolatilityStop"
    /\ err' = NoError
    /\ num' = Num(0)
    /\ results' = <<>>
    /\ pc' = "done"
    /\ UNCHANGED <<Inputs, Locals, OutsideVolatility>>

\* calculateATR called on the series in reversed order
CallATRReversed ==
    /\ pc = "idle"
    /\ op' = "calculateATR on reversed series"
    /\ args' = <<>>
    /\ IF ATRNeedsMore(Len(Reverse(data)), atrPeriod)
       THEN /\ err' = [thrown |-> TRUE, need |-> atrPeriod + 1, what |-> "ATR"]
            /\ num' = Num(0)
       ELSE /\ err' = NoError
            /\ num' = calculateATR(Reverse(data), atrPeriod)
    /\ stop' = NoStop
    /\ results' = <<>>
    /\ pc' = "done"
    /\ UNCHANGED <<Inputs, Locals, OutsideVolatility>>

\* the computation of the volatility route: calculateATR on the history,
\* then calculateVolatilityStop on a current price and that ATR
CallATRThenStop ==
    /\ pc = "idle"
    /\ op' = "calculateATR, calculateVolatilityStop"
    /\ IF ATRNeedsMore(Len(data), atrPeriod)
       THEN /\ err' = [thrown |-> TRUE, need |-> atrPeriod + 1, what |-> "ATR"]
            /\ num' = Num(0)
            /\ args' = <<>>
            /\ stop' = NoStop
       ELSE /\ err' = NoError
            /\ num' = calculateATR(data, atrPeriod)
            /\ \E currentPrice \in CurrentPrices \cup {At(data, Len(data) - 1).close} :
                  /\ args' = <<currentPrice, num', multiplier>>
                  /\ stop' = calculateVolatilityStop(currentPrice, num', multiplier)
    /\ results' = <<>>
    /\ pc' = "done"
    /\ UNCHANGED <<Inputs, Locals, OutsideVolatility>>

\* entry of calculateVolatilityStopTrailing up to the loop
CallTrailing ==
    /\ pc = "idle"
    /\ op' = "calculateVolatilityStopTrailing"
    /\ args' = <<>>
    /\ num' = Num(0)
    /\ stop' = NoStop
    /\ results' = <<>>
    /\ IF TrailingNeedsMore(Len(data), atrPeriod)
       THEN /\ err' = [thrown |-> TRUE, need |-> atrPeriod + 1,
                       what |-> "Volatility Stop"]
            /\ pc' = "done"
            /\ UNCHANGED Locals
       ELSE /\ err' = NoError
            /\ atr' = TrailingATR(data, atrPeriod)
            /\ previousStop' = Num(0)
            /\ trend' = "UP"
            /\ i' = LoopStart(atrPeriod)
            /\ pc' = "loop"
    /\ UNCHANGED <<Inputs, OutsideVolatility>>

\* one pass of its loop
TrailingIter ==
    /\ pc = "loop"
    /\ i < Len(data)
    /\ LET currentPrice == At(data, i).close
           stopUp == RSub(currentPrice, RMul(multiplier, atr))
           stopDown == RAdd(currentPrice, RMul(multiplier, atr))
           ts == TrendAndStop(i = atrPeriod, trend, previousStop, currentPrice,
                              stopUp, stopDown)
           stopLossPercentage == TrailingPercentage(currentPrice, ts.stopLoss)
           signal == Signal(ts.trend, currentPrice, ts.stopLoss, stopLossPercentage)
       IN  /\ results' = Append(results,
                ResultPoint(At(data, i), currentPrice, atr, ts.stopLoss,
                            stopLossPercentage, ts.trend, signal))
           /\ trend' = ts.trend
           /\ previousStop' = ts.stopLoss
    /\ i' = i + 1
    /\ UNCHANGED <<Inputs, pc, op, args, err, num, stop, atr, OutsideVolatility>>

\* the loop ends and results is returned
TrailingReturn ==
    /\ pc = "loop"
    /\ ~(i < Len(data))
    /\ pc' = "done"
    /\ UNCHANGED <<Inputs, Locals, op, args, err, num, stop, results,
                   OutsideVolatility>>

Next ==
    \/ CallTrueRange
    \/ CallATR
    \/ CallVolatilityStop
    \/ CallATRReversed
    \/ CallATRThenStop
    \/ CallTrailing
    \/ TrailingIter
    \/ TrailingReturn

Spec == Init /\ [][Next]_vars

\* ------------------------------------------------------------------------
\* Trend and signal classifier (lib/dma.ts: its code is not in the
\* repository snapshot, the definitions follow its specification)
\* ------------------------------------------------------------------------
MaxStep == 2

\* trailing windows of the three moving averages
Window50 == 50
Window150 == 150
Window200 == 200

\* thresholds, in percent
TangledPercent == 2
ExtendedPercent == 15
PullbackPercent == 3

\* number of closes of the documented ascending series
ScenarioLength == 201

\* strictly ascending closes starting at 100: the rise alternates between
\* a and b, or is a for the first hundred days and b afterwards
AlternatingCloses(a, b) ==
    [k \in 1..ScenarioLength |->
        Num(100 + a * (k \div 2) + b * ((k - 1) \div 2))]

BendingCloses(a, b) ==
    [k \in 1..ScenarioLength |->
        Num(100 + a * (IF k - 1 < 100 THEN k - 1 ELSE 100)
                + b * (IF k - 1 > 100 THEN k - 101 ELSE 0))]

AscendingSeries ==
    {AlternatingCloses(a, b) : a \in 1..MaxStep, b \in 1..MaxStep}
        \cup {BendingCloses(a, b) : a \in 1..MaxStep, b \in 1..MaxStep}

DMAValues == {Num(95), Num(100), Num(101), Num(120)}

Histories ==
    [ma200Flat : BOOLEAN, priceCrossedAbove200 : BOOLEAN,
     ma50CrossedAbove150 : BOOLEAN, ma50CrossedBelow150 : BOOLEAN,
     nearResistance : BOOLEAN]

DMAInputs ==
    [price : DMAValues, ma50 : DMAValues, ma150 : DMAValues,
     ma200 : DMAValues, recentHistory : Histories]

\* sum of s[lo..hi], added up by halves
RECURSIVE RangeSum(_, _, _)
RangeSum(s, lo, hi) ==
    IF lo > hi THEN Num(0)
    ELSE IF lo = hi THEN s[lo]
    ELSE LET mid == (lo + hi) \div 2
         IN  RAdd(RangeSum(s, lo, mid), RangeSum(s, mid + 1, hi))

\* mean of the n most recent closes
SimpleMovingAverage(s, n) ==
    RDiv(RangeSum(s, Len(s) + 1 - n, Len(s)), Num(n))

computeMovingAverages(s) ==
    [ma50  |-> SimpleMovingAverage(s, Window50),
     ma150 |-> SimpleMovingAverage(s, Window150),
     ma200 |-> SimpleMovingAverage(s, Window200)]

FullBullishAlignment(price, mas) ==
    /\ RGt(price, mas.ma200)
    /\ RGt(mas.ma50, mas.ma150)
    /\ RGt(mas.ma150, mas.ma200)

FullBearishAlignment(price, mas) ==
    /\ RLt(price, mas.ma200)
    /\ RLt(mas.ma50, mas.ma150)
    /\ RLt(mas.ma150, mas.ma200)

classifyTrendPriceOnly(price, mas) ==
    IF RGt(price, mas.ma200) THEN "BULLISH"
    ELSE IF RLt(price, mas.ma200) THEN "BEARISH"
    ELSE "NEUTRAL"

classifyTrend(price, mas) ==
    IF FullBullishAlignment(price, mas) THEN "BULLISH"
    ELSE IF FullBearishAlignment(price, mas) THEN "BEARISH"
    ELSE "NEUTRAL"

\* a and b differ by at most pct percent of the larger of the two
WithinPercent(a, b, pct) ==
    RLe(RMul(MathAbs(RSub(a, b)), Num(100)), RMul(MathMax(a, b), Num(pct)))

Tangled(mas) ==
    /\ WithinPercent(mas.ma50, mas.ma150, TangledPercent)
    /\ WithinPercent(mas.ma150, mas.ma200, TangledPercent)
    /\ WithinPercent(mas.ma50, mas.ma200, TangledPercent)

\* price is more than ExtendedPercent above ma50
Extended(price, mas) ==
    RGt(RMul(RSub(price, mas.ma50), Num(100)),
        RMul(mas.ma50, Num(ExtendedPercent)))

\* price is at or above ma50 by at most PullbackPercent
PullbackToSupport(price, mas) ==
    /\ RGe(price, mas.ma50)
    /\ RLe(RMul(RSub(price, mas.ma50), Num(100)),
           RMul(mas.ma50, Num(PullbackPercent)))

\* the condition of rule r, numbered as the rules are listed
RuleHolds(r, price, mas, recentHistory) ==
    CASE r = 1 -> \/ Tangled(mas)
                  \/ Extended(price, mas)
                  \/ recentHistory.ma200Flat
      [] r = 2 -> /\ FullBullishAlignment(price, mas)
                  /\ PullbackToSupport(price, mas)
      [] r = 3 -> /\ recentHistory.priceCrossedAbove200
                  /\ recentHistory.ma50CrossedAbove150
      [] r = 4 -> /\ RLt(price, mas.ma50)
                  /\ RGt(price, mas.ma150)
      [] r = 5 -> recentHistory.ma50CrossedBelow150
      [] r = 6 -> RLt(price, mas.ma200)
      [] r = 7 -> /\ FullBearishAlignment(price, mas)
                  /\ recentHistory.nearResistance
      [] r = 8 -> TRUE

RuleResult ==
    <<[signal |-> "NO_TRADE",      strength |-> "NONE"],
      [signal |-> "BUY_SETUP_A",   strength |-> "STRONG"],
      [signal |-> "BUY_SETUP_B",   strength |-> "MODERATE"],
      [signal |-> "SELL_PARTIAL",  strength |-> "WEAK"],
      [signal |-> "SELL_MAJORITY", strength |-> "MODERATE"],
      [signal |-> "SELL_FULL",     strength |-> "STRONG"],
      [signal |-> "SHORT_SETUP",   strength |-> "MODERATE"],
      [signal |-> "HOLD",          strength |-> "NONE"]>>

\* the first rule of order whose condition holds
RECURSIVE FirstMatch(_, _, _, _, _)
FirstMatch(order, k, price, mas, recentHistory) ==
    IF RuleHolds(order[k], price, mas, recentHistory) THEN order[k]
    ELSE FirstMatch(order, k + 1, price, mas, recentHistory)

\* the rules in the order they are evaluated: the no-trade override, the
\* full exit that overrides the weaker sell signals and dominates the
\* entry signals, then the other rules as listed
EvaluationOrder == <<1, 6, 2, 3, 4, 5, 7, 8>>

classifySignalAsListed(price, mas, recentHistory) ==
    RuleResult[FirstMatch(<<1, 2, 3, 4, 5, 6, 7, 8>>, 1,
                          price, mas, recentHistory)]

classifySignalExitFirst(price, mas, recentHistory) ==
    RuleResult[FirstMatch(<<6, 1, 2, 3, 4, 5, 7, 8>>, 1,
                          price, mas, recentHistory)]

classifySignal(price, mas, recentHistory) ==
    RuleResult[FirstMatch(EvaluationOrder, 1, price, mas, recentHistory)]

MasOf(in) == [ma50 |-> in.ma50, ma150 |-> in.ma150, ma200 |-> in.ma200]

InitDMA ==
    /\ VolatilityUnused
    /\ ProviderIdle
    /\ BatchIdle
    /\ PostIdle
    /\ PageIdle
    /\ \/ closes = <<>> /\ dmaIn \in DMAInputs
       \/ closes \in AscendingSeries /\ dmaIn = NoDMAIn
    /\ dmaOut = NoDMAOut

\* computeMovingAverages(series), then classifyTrend at the last close
CallMovingAveragesThenTrend ==
    /\ dmaOut.op = "none"
    /\ closes # <<>>
    /\ LET mas == computeMovingAverages(closes)
       IN  dmaOut' = [op |-> "computeMovingAverages, classifyTrend",
                      ma50 |-> mas.ma50, ma150 |-> mas.ma150,
                      ma200 |-> mas.ma200,
                      trend |-> classifyTrend(closes[Len(closes)], mas),
                      signal |-> "", strength |-> ""]
    /\ UNCHANGED <<closes, dmaIn, OutsideDMA>>

CallClassifyTrend ==
    /\ dmaOut.op = "none"
    /\ closes = <<>>
    /\ dmaOut' = [op |-> "classifyTrend",
                  ma50 |-> dmaIn.ma50, ma150 |-> dmaIn.ma150,
                  ma200 |-> dmaIn.ma200,
                  trend |-> classifyTrend(dmaIn.price, MasOf(dmaIn)),
                  signal |-> "", strength |-> ""]
    /\ UNCHANGED <<closes, dmaIn, OutsideDMA>>

CallClassifySignal ==
    /\ dmaOut.op = "none"
    /\ closes = <<>>
    /\ LET r == classifySignal(dmaIn.price, MasOf(dmaIn),
                               dmaIn.recentHistory)
       IN  dmaOut' = [op |-> "classifySignal",
                      ma50 |-> dmaIn.ma50, ma150 |-> dmaIn.ma150,
                      ma200 |-> dmaIn.ma200,
                      trend |-> "",
                      signal |-> r.signal, strength |-> r.strength]
    /\ UNCHANGED <<closes, dmaIn, OutsideDMA>>

NextDMA ==
    \/ CallMovingAveragesThenTrend
    \/ CallClassifyTrend
    \/ CallClassifySignal

SpecDMA == InitDMA /\ [][NextDMA]_vars

\* ------------------------------------------------------------------------
\* Provider selection and symbol formatting (lib/stock-api.ts,
\* lib/services/nse.service.ts); a string is a sequence of characters
\* ------------------------------------------------------------------------
EndsWith(s, suffix) ==
    /\ Len(s) >= Len(suffix)
    /\ SubSeq(s, Len(s) - Len(suffix) + 1, Len(s)) = suffix

StartsWith(s, prefix) ==
    /\ Len(s) >= Len(prefix)
    /\ SubSeq(s, 1, Len(prefix)) = prefix

UpperCaseLetters ==
    <<"A", "B", "C", "D", "E", "F", "G", "H", "I", "J", "K", "L", "M",
      "N", "O", "P", "Q", "R", "S", "T", "U", "V", "W", "X", "Y", "Z">>

LowerCaseLetters ==
    <<"a", "b", "c", "d", "e", "f", "g", "h", "i", "j", "k", "l", "m",
      "n", "o", "p", "q", "r", "s", "t", "u", "v", "w", "x", "y", "z">>

ToLowerCaseChar(c) ==
    IF \E k \in DOMAIN UpperCaseLetters : UpperCaseLetters[k] = c
    THEN LowerCaseLetters[CHOOSE k \in DOMAIN UpperCaseLetters :
                              UpperCaseLetters[k] = c]
    ELSE c

toLowerCaseIdentity(s) == s

toLowerCase(s) == [k \in 1..Len(s) |-> ToLowerCaseChar(s[k])]

DotNS == <<".", "N", "S">>
DotBO == <<".", "B", "O">>
DotBSE == <<".", "B", "S", "E">>

SymbolBases == {<<>>, <<"A">>, <<"A", "B">>}

SymbolSuffixes ==
    {<<>>, DotNS, DotBO, DotBSE, <<".", "n", "s">>, <<".", "L">>, <<"N", "S">>}

Symbols == {b \o x : b \in SymbolBases, x \in SymbolSuffixes}

Twelvedata == <<"t", "w", "e", "l", "v", "e", "d", "a", "t", "a">>
Alphavantage == <<"a", "l", "p", "h", "a", "v", "a", "n", "t", "a", "g", "e">>
Finnhub == <<"f", "i", "n", "n", "h", "u", "b">>

ProviderEnvs ==
    {Unset, SetTo(<<>>), SetTo(Twelvedata), SetTo(Alphavantage),
     SetTo(Finnhub),
     SetTo(<<"T", "w", "e", "l", "v", "e", "D", "a", "t", "a">>),
     SetTo(<<"A", "L", "P", "H", "A", "V", "A", "N", "T", "A", "G", "E">>),
     SetTo(<<"F", "i", "n", "n", "h", "u", "b">>),
     SetTo(<<"y", "a", "h", "o", "o">>),
     SetTo(<<"n", "s", "e">>)}

isIndianStock(s) ==
    EndsWith(s, DotNS) \/ EndsWith(s, DotBO) \/ EndsWith(s, DotBSE)

\* process.env.STOCK_API_PROVIDER?.toLowerCase()
ProviderOf(env) == IF env.set THEN SetTo(toLowerCase(env.value)) ELSE Unset

getStockServiceForSymbol(s, env) ==
    IF isIndianStock(s) THEN "NSEService"
    ELSE LET provider == ProviderOf(env)
         IN  IF provider = SetTo(Twelvedata) THEN "TwelveDataService"
             ELSE IF provider = SetTo(Alphavantage) THEN "AlphaVantageService"
             ELSE IF provider = SetTo(Finnhub) THEN "FinnhubService"
             ELSE "FinnhubService"

formatSymbol(s) ==
    IF EndsWith(s, DotNS) \/ EndsWith(s, DotBO) THEN s
    ELSE s \o DotNS

InitProvider ==
    /\ VolatilityUnused
    /\ DMAIdle
    /\ BatchIdle
    /\ PostIdle
    /\ PageIdle
    /\ symbol \in Symbols
    /\ providerEnv \in ProviderEnvs
    /\ service = NoService
    /\ formatted = <<>>

CallGetStockServiceForSymbol ==
    /\ service = NoService
    /\ service' = getStockServiceForSymbol(symbol, providerEnv)
    /\ UNCHANGED <<symbol, providerEnv, formatted, OutsideProvider>>

\* formatSymbol(symbol), then formatSymbol of what it returned
CallFormatSymbol ==
    /\ Len(formatted) < 2
    /\ formatted' =
           Append(formatted,
                  formatSymbol(IF formatted = <<>> THEN symbol
                               ELSE formatted[Len(formatted)]))
    /\ UNCHANGED <<symbol, providerEnv, service, OutsideProvider>>

NextProvider ==
    \/ CallGetStockServiceForSymbol
    \/ CallFormatSymbol

SpecProvider == InitProvider /\ [][NextProvider]_vars

\* ------------------------------------------------------------------------
\* Batch price fetching (NSEService.batchFetchPrices of
\* lib/services/nse.service.ts, batchFetchPrices of lib/stock-api.ts)
\* ------------------------------------------------------------------------
MaxSymbols == 2

BatchSymbols ==
    {<<"A">> \o DotNS, <<"A", "B">> \o DotNS, <<"A">> \o DotBO,
     <<"A">> \o DotBSE, <<"B">>}

SymbolLists ==
    UNION {[1..n -> BatchSymbols] : n \in 0..MaxSymbols}

\* what last_price.value of a stock can be in a response
PriceValues == {0, 5, 7}

\* a Map: a function from its keys to their values
MapSet(m, key, value) ==
    [x \in (DOMAIN m) \cup {key} |-> IF x = key THEN value ELSE m[x]]

\* symbols.filter(...) of batchFetchPrices
RECURSIVE FilterIndian(_, _)
FilterIndian(symbols, wanted) ==
    IF symbols = <<>> THEN <<>>
    ELSE (IF isIndianStock(Head(symbols)) = wanted
          THEN <<Head(symbols)>> ELSE <<>>)
             \o FilterIndian(Tail(symbols), wanted)

\* the elements of s without repetitions, in the order of their first
\* occurrence
RECURSIVE DistinctInOrder(_)
DistinctInOrder(s) ==
    IF s = <<>> THEN <<>>
    ELSE LET front == DistinctInOrder(SubSeq(s, 1, Len(s) - 1))
             last == s[Len(s)]
         IN  IF \E k \in 1..Len(front) : front[k] = last
             THEN front ELSE Append(front, last)

\* symbols.map((s) => this.formatSymbol(s))
FormattedSymbols(symbols) ==
    [k \in 1..Len(symbols) |-> formatSymbol(symbols[k])]

\* the responses the API can give to a batch request: the request fails,
\* or the data hold, for each requested ticker, nothing, a stock without
\* last_price, or a stock with a last_price.value
EntryChoices ==
    {[present |-> FALSE, wellFormed |-> TRUE, price |-> 0],
     [present |-> TRUE, wellFormed |-> FALSE, price |-> 0]}
        \cup {[present |-> TRUE, wellFormed |-> TRUE, price |-> v] :
                  v \in PriceValues}

RECURSIVE EntriesOf(_, _)
EntriesOf(tickers, choice) ==
    IF tickers = <<>> THEN <<>>
    ELSE (IF choice[Len(choice) - Len(tickers) + 1].present
          THEN <<[ticker |-> Head(tickers),
                  wellFormed |->
                      choice[Len(choice) - Len(tickers) + 1].wellFormed,
                  price |-> choice[Len(choice) - Len(tickers) + 1].price]>>
          ELSE <<>>)
             \o EntriesOf(Tail(tickers), choice)

BatchResponses(symbols) ==
    LET tickers == DistinctInOrder(FormattedSymbols(symbols))
    IN  {[kind |-> k, entries |-> <<>>] :
            k \in {"network error", "http error", "status error"}}
        \cup {[kind |-> "success", entries |-> EntriesOf(tickers, c)] :
                 c \in [1..Len(tickers) -> EntryChoices]}

\* the responses to a request for one stock: the request fails, or it
\* holds a last_price.value
QuoteResponses ==
    {[ok |-> FALSE, price |-> 0]}
        \cup {[ok |-> TRUE, price |-> v] : v \in PriceValues}

\* NSEService.fetchCurrentPrice: the price returned, thrown when it throws
NSEFetchCurrentPrice(response) ==
    IF ~response.ok THEN [thrown |-> TRUE, price |-> 0]
    ELSE IF response.price <= 0 THEN [thrown |-> TRUE, price |-> 0]
    ELSE [thrown |-> FALSE, price |-> response.price]

\* fetchCurrentPrice of stock-api.ts: the NSE service for an Indian
\* symbol, for the others a service that returns the price of the response
FetchCurrentPrice(s, response) ==
    IF getStockServiceForSymbol(s, Unset) = "NSEService"
    THEN NSEFetchCurrentPrice(response)
    ELSE [thrown |-> ~response.ok, price |-> response.price]

\* ticker.split(".")[0]
SplitDotFirst(ticker) ==
    IF \E k \in 1..Len(ticker) : ticker[k] = "."
    THEN SubSeq(ticker, 1,
                (CHOOSE k \in 1..Len(ticker) :
                     /\ ticker[k] = "."
                     /\ \A j \in 1..(k - 1) : ticker[j] # ".") - 1)
    ELSE ticker

\* the callback of symbols.find
MatchesTicker(s, ticker) ==
    \/ formatSymbol(s) = ticker
    \/ StartsWith(formatSymbol(s), SplitDotFirst(ticker))

\* symbols.find(...): the index of the first match, 0 for undefined
FindOriginalSymbol(symbols, ticker) ==
    IF \E k \in 1..Len(symbols) : MatchesTicker(symbols[k], ticker)
    THEN CHOOSE k \in 1..Len(symbols) :
             /\ MatchesTicker(symbols[k], ticker)
             /\ \A j \in 1..(k - 1) : ~MatchesTicker(symbols[j], ticker)
    ELSE 0

\* the body of the loop over Object.entries(data.data)
ExtractEntry(prices, symbols, entry) ==
    IF entry.price > 0
    THEN LET found == FindOriginalSymbol(symbols, entry.ticker)
         IN  IF found # 0 THEN MapSet(prices, symbols[found], entry.price)
             ELSE prices
    ELSE prices

\* the body of the fallback loop: what it leaves in prices, and whether
\* the failure of the fetch leaves the loop
FallbackFetchUncaught(prices, s, response) ==
    LET got == NSEFetchCurrentPrice(response)
    IN  [prices |-> IF got.thrown THEN prices
                    ELSE MapSet(prices, s, got.price),
         thrown |-> got.thrown]

FallbackFetch(prices, s, response) ==
    LET got == NSEFetchCurrentPrice(response)
    IN  [prices |-> MapSet(prices, s, IF got.thrown THEN 0 ELSE got.price),
         thrown |-> FALSE]

\* the body of the loops of batchFetchPrices that fetch one stock at a time
IndividualFetch(prices, s, response) ==
    LET got == FetchCurrentPrice(s, response)
    IN  MapSet(prices, s, IF got.thrown THEN 0 ELSE got.price)

InitBatch ==
    /\ VolatilityUnused
    /\ DMAIdle
    /\ ProviderIdle
    /\ PostIdle
    /\ PageIdle
    /\ batchSymbols \in SymbolLists
    /\ batchPc = "idle"
    /\ batchEntry = "none"
    /\ nseSymbols = <<>>
    /\ nseResponse = NoResponse
    /\ nsePrices = EmptyMap
    /\ batchK = 0
    /\ batchQueue = <<>>
    /\ batchPrices = EmptyMap
    /\ batchFetched = <<>>

\* NSEService.batchFetchPrices(symbols) called directly
CallNSEBatchFetchPrices ==
    /\ batchPc = "idle"
    /\ batchEntry' = "NSEService.batchFetchPrices"
    /\ nseSymbols' = batchSymbols
    /\ batchPc' = IF Len(batchSymbols) = 0 THEN "done" ELSE "fetch"
    /\ UNCHANGED <<batchSymbols, nseResponse, nsePrices, batchK, batchQueue,
                   batchPrices, batchFetched, OutsideBatch>>

\* batchFetchPrices(symbols) of stock-api.ts up to its call of the NSE
\* service
CallBatchFetchPrices ==
    /\ batchPc = "idle"
    /\ batchEntry' = "batchFetchPrices"
    /\ LET indianStocks == FilterIndian(batchSymbols, TRUE)
           otherStocks == FilterIndian(batchSymbols, FALSE)
       IN  IF Len(indianStocks) > 0
           THEN /\ nseSymbols' = indianStocks
                /\ batchPc' = "fetch"
                /\ UNCHANGED <<batchQueue, batchK>>
           ELSE /\ nseSymbols' = <<>>
                /\ batchPc' = "individual"
                /\ batchQueue' = otherStocks
                /\ batchK' = 1
    /\ UNCHANGED <<batchSymbols, nseResponse, nsePrices, batchPrices,
                   batchFetched, OutsideBatch>>

\* the batch request of NSEService.batchFetchPrices and the checks of its
\* response
NSEBatchRequest ==
    /\ batchPc = "fetch"
    /\ \E response \in BatchResponses(nseSymbols) :
           /\ nseResponse' = response
           /\ batchPc' = IF response.kind = "success" THEN "extract"
                         ELSE "fallback"
    /\ batchK' = 1
    /\ UNCHANGED <<batchSymbols, batchEntry, nseSymbols, nsePrices,
                   batchQueue, batchPrices, batchFetched, OutsideBatch>>

\* one pass of the loop over the entries of the response; an entry without
\* last_price throws into the catch block
NSEExtract ==
    /\ batchPc = "extract"
    /\ batchK <= Len(nseResponse.entries)
    /\ LET entry == nseResponse.entries[batchK]
       IN  IF entry.wellFormed
           THEN /\ nsePrices' = ExtractEntry(nsePrices, nseSymbols, entry)
                /\ batchK' = batchK + 1
                /\ batchPc' = batchPc
           ELSE /\ nsePrices' = nsePrices
                /\ batchK' = 1
                /\ batchPc' = "fallback"
    /\ UNCHANGED <<batchSymbols, batchEntry, nseSymbols, nseResponse,
                   batchQueue, batchPrices, batchFetched, OutsideBatch>>

\* what the caller of NSEService.batchFetchPrices does with its outcome
NSEHandBack(prices, rejected) ==
    IF batchEntry = "NSEService.batchFetchPrices"
    THEN /\ batchPc' = IF rejected THEN "rejected" ELSE "done"
         /\ batchPrices' = prices
         /\ batchQueue' = <<>>
         /\ batchK' = 0
    ELSE /\ batchPc' = "individual"
         /\ batchPrices' = IF rejected THEN batchPrices ELSE prices
         /\ batchQueue' =
                (IF rejected THEN FilterIndian(batchSymbols, TRUE) ELSE <<>>)
                    \o FilterIndian(batchSymbols, FALSE)
         /\ batchK' = 1

\* one pass of the fallback loop of NSEService.batchFetchPrices
NSEFallback ==
    /\ batchPc = "fallback"
    /\ batchK <= Len(nseSymbols)
    /\ \E response \in QuoteResponses :
           LET step == FallbackFetch(nsePrices, nseSymbols[batchK], response)
           IN  /\ nsePrices' = step.prices
               /\ IF step.thrown
                  THEN NSEHandBack(step.prices, TRUE)
                  ELSE /\ batchK' = batchK + 1
                       /\ UNCHANGED <<batchPc, batchPrices, batchQueue>>
               /\ batchFetched' =
                      Append(batchFetched,
                             [symbol |-> nseSymbols[batchK],
                              response |-> response])
    /\ UNCHANGED <<batchSymbols, batchEntry, nseSymbols, nseResponse,
                   OutsideBatch>>

\* NSEService.batchFetchPrices returns prices
NSEReturn ==
    /\ \/ batchPc = "extract" /\ batchK > Len(nseResponse.entries)
       \/ batchPc = "fallback" /\ batchK > Len(nseSymbols)
    /\ NSEHandBack(nsePrices, FALSE)
    /\ UNCHANGED <<batchSymbols, batchEntry, nseSymbols, nseResponse,
                   nsePrices, batchFetched, OutsideBatch>>

\* one pass of a loop of batchFetchPrices that fetches one stock at a time
FetchIndividually ==
    /\ batchPc = "individual"
    /\ batchK <= Len(batchQueue)
    /\ \E response \in QuoteResponses :
           /\ batchPrices' =
                  IndividualFetch(batchPrices, batchQueue[batchK], response)
           /\ batchFetched' =
                  Append(batchFetched,
                         [symbol |-> batchQueue[batchK],
                          response |-> response])
    /\ batchK' = batchK + 1
    /\ UNCHANGED <<batchSymbols, batchEntry, batchPc, nseSymbols,
                   nseResponse, nsePrices, batchQueue, OutsideBatch>>

\* batchFetchPrices returns prices
BatchReturn ==
    /\ batchPc = "individual"
    /\ batchK > Len(batchQueue)
    /\ batchPc' = "done"
    /\ UNCHANGED <<batchSymbols, batchEntry, nseSymbols, nseResponse,
                   nsePrices, batchK, batchQueue, batchPrices, batchFetched,
                   OutsideBatch>>

NextBatch ==
    \/ CallNSEBatchFetchPrices
    \/ CallBatchFetchPrices
    \/ NSEBatchRequest
    \/ NSEExtract
    \/ NSEFallback
    \/ NSEReturn
    \/ FetchIndividually
    \/ BatchReturn

SpecBatch == InitBatch /\ [][NextBatch]_vars

\* ------------------------------------------------------------------------
\* POST /api/stock/volatility (app/api/stock/volatility/route.ts)
\* ------------------------------------------------------------------------
MaxStocks == 2

\* an element of the stocks array: null, or an object with a symbol and an
\* atrPeriod (atrMultiplier left to its default)
NullStock == [isNull |-> TRUE, symbol |-> "", atrPeriod |-> 0]

StockEntries ==
    {NullStock,
     [isNull |-> FALSE, symbol |-> "AAPL", atrPeriod |-> 1],
     [isNull |-> FALSE, symbol |-> "MSFT", atrPeriod |-> 2]}

\* the body of the request: stocks is an array, or it is not
PostBodies ==
    {[isArray |-> FALSE, stocks |-> <<>>]}
        \cup {[isArray |-> TRUE, stocks |-> s] :
                 s \in UNION {[1..n -> StockEntries] : n \in 0..MaxStocks}}

\* the default of atrMultiplier
DefaultMultiplier == Num(2)

\* what stockOrchestrator.fetchCurrentPrice gives: it rejects, or a price
PostPriceOutcomes ==
    {[ok |-> FALSE, price |-> Num(0)], [ok |-> TRUE, price |-> Num(10)]}

\* what stockOrchestrator.fetchHistoricalData gives: it rejects, or a
\* series
PostHistoryOutcomes ==
    {[ok |-> FALSE, series |-> <<>>]}
        \cup {[ok |-> TRUE, series |-> h] :
                 h \in {d \in AllSeries :
                           \/ Len(d) <= 1
                           \/ Len(d) = 2 /\ \A k \in 1..Len(d) :
                                  d[k].high # d[k].low}}

FailedResult(stock, cause) ==
    [symbol |-> stock.symbol, success |-> FALSE, error |-> cause,
     currentPrice |-> Num(0), atr |-> Num(0), volatilityStop |-> NoStop]

\* the try block of the loop body: the result pushed, or the failure thrown
ProcessStock(stock, priceOutcome, historyOutcome) ==
    IF stock.isNull THEN FailedResult(stock, "TypeError")
    ELSE IF ~priceOutcome.ok THEN FailedResult(stock, "price fetch")
    ELSE IF ~historyOutcome.ok THEN FailedResult(stock, "history fetch")
    ELSE IF ATRNeedsMore(Len(historyOutcome.series), stock.atrPeriod)
    THEN FailedResult(stock, "calculateATR")
    ELSE LET a == calculateATR(historyOutcome.series, stock.atrPeriod)
         IN  [symbol |-> stock.symbol, success |-> TRUE, error |-> "",
              currentPrice |-> priceOutcome.price, atr |-> a,
              volatilityStop |->
                  calculateVolatilityStop(priceOutcome.price, a,
                                          DefaultMultiplier)]

\* the catch block of the loop body reads stock.symbol: it throws for null
CatchThrows(stock) == stock.isNull

\* results.filter((r) => r.success).length
RECURSIVE CountSuccessful(_)
CountSuccessful(rs) ==
    IF rs = <<>> THEN 0
    ELSE (IF Head(rs).success THEN 1 ELSE 0) + CountSuccessful(Tail(rs))

InitPost ==
    /\ VolatilityUnused
    /\ DMAIdle
    /\ ProviderIdle
    /\ BatchIdle
    /\ PageIdle
    /\ postBody \in PostBodies
    /\ postPc = "idle"
    /\ postIndex = 0
    /\ postResults = <<>>
    /\ postErrors = <<>>
    /\ postResponse = NoPostResponse

\* the request is read and stocks is checked
PostValidate ==
    /\ postPc = "idle"
    /\ IF ~postBody.isArray
       THEN /\ postPc' = "done"
            /\ postResponse' =
                   [NoPostResponse EXCEPT !.status = 400, !.success = FALSE]
            /\ postIndex' = postIndex
       ELSE /\ postPc' = "loop"
            /\ postIndex' = 1
            /\ postResponse' = postResponse
    /\ UNCHANGED <<postBody, postResults, postErrors, OutsidePost>>

\* one pass of the loop over stocks
PostProcessStock ==
    /\ postPc = "loop"
    /\ postIndex <= Len(postBody.stocks)
    /\ \E priceOutcome \in PostPriceOutcomes,
          historyOutcome \in PostHistoryOutcomes :
           LET stock == postBody.stocks[postIndex]
               result == ProcessStock(stock, priceOutcome, historyOutcome)
           IN  IF result.success
               THEN /\ postResults' = Append(postResults, result)
                    /\ postIndex' = postIndex + 1
                    /\ UNCHANGED <<postPc, postErrors, postResponse>>
               ELSE IF CatchThrows(stock)
               THEN /\ postPc' = "done"
                    /\ postResponse' =
                           [NoPostResponse EXCEPT !.status = 500,
                                                  !.success = FALSE]
                    /\ UNCHANGED <<postResults, postErrors, postIndex>>
               ELSE /\ postErrors' = Append(postErrors, result.error)
                    /\ postResults' = Append(postResults, result)
                    /\ postIndex' = postIndex + 1
                    /\ UNCHANGED <<postPc, postResponse>>
    /\ UNCHANGED <<postBody, OutsidePost>>

\* the response after the loop
PostRespond ==
    /\ postPc = "loop"
    /\ postIndex > Len(postBody.stocks)
    /\ postPc' = "done"
    /\ postResponse' =
           [status |-> 200, success |-> TRUE, results |-> postResults,
            errors |-> postErrors,
            totalProcessed |-> Len(postBody.stocks),
            totalSuccessful |-> CountSuccessful(postResults),
            totalFailed |-> Len(postErrors)]
    /\ UNCHANGED <<postBody, postIndex, postResults, postErrors,
                   OutsidePost>>

NextPost ==
    \/ PostValidate
    \/ PostProcessStock
    \/ PostRespond

SpecPost == InitPost /\ [][NextPost]_vars

\* ------------------------------------------------------------------------
\* Batch page (app/batch/page.tsx): sorting, and the two operations started
\* from its buttons
\* ------------------------------------------------------------------------
MaxClicks == 4

SortFields ==
    {"symbol", "name", "targetPrice", "atrPeriod", "atrMultiplier",
     "currentPrice", "stopLoss"}

\* what handleSort(field) sets sortField and sortDirection to
handleSortKeepsField(field, direction, f) ==
    IF field = f
    THEN IF direction = "asc" THEN [field |-> field, direction |-> "desc"]
         ELSE IF direction = "desc"
         THEN [field |-> field, direction |-> Null]
         ELSE [field |-> field, direction |-> direction]
    ELSE [field |-> f, direction |-> "asc"]

handleSort(field, direction, f) ==
    IF field = f
    THEN IF direction = "asc" THEN [field |-> field, direction |-> "desc"]
         ELSE IF direction = "desc"
         THEN [field |-> Null, direction |-> Null]
         ELSE [field |-> field, direction |-> direction]
    ELSE [field |-> f, direction |-> "asc"]

\* the disabled attribute of the two buttons
CalculateDisabled(calculating, running) == calculating \/ running

RunDisabledWhileRunningOnly(calculating, running) == running

RunDisabled(calculating, running) == running \/ calculating

\* how the request of an operation ends: a response with success, a
\* response without, or an error thrown by fetch or response.json()
RequestOutcomes == {"success", "no success", "thrown"}

InitPage ==
    /\ VolatilityUnused
    /\ DMAIdle
    /\ ProviderIdle
    /\ BatchIdle
    /\ PostIdle
    /\ PageIdle

\* a click on a column header
HandleSort ==
    /\ sortClicks < MaxClicks
    /\ \E f \in SortFields :
           LET next == handleSort(sortField, sortDirection, f)
           IN  /\ sortField' = next.field
               /\ sortDirection' = next.direction
               /\ sortArg' = f
    /\ sortClicks' = sortClicks + 1
    /\ UNCHANGED <<isCalculating, isRunning, calcPending, runPending,
                   calcButtonDisabled, runButtonDisabled, toast,
                   OutsidePage>>

\* a click on the first button: calculateVolatilityStops up to its await,
\* and the render that follows the click
ClickCalculate ==
    /\ ~calcButtonDisabled
    /\ isCalculating' = TRUE
    /\ calcPending' = calcPending + 1
    /\ toast' = "Calculating Volatility Stops"
    /\ calcButtonDisabled' = CalculateDisabled(TRUE, isRunning)
    /\ runButtonDisabled' = RunDisabled(TRUE, isRunning)
    /\ UNCHANGED <<sortField, sortDirection, sortArg, sortClicks, isRunning,
                   runPending, OutsidePage>>

\* calculateVolatilityStops from its await to its end
CalculateEnds ==
    /\ calcPending > 0
    /\ \E outcome \in RequestOutcomes :
           toast' = IF outcome = "success"
                    THEN "Volatility Calculation Complete"
                    ELSE "Calculation Failed"
    /\ isCalculating' = FALSE
    /\ calcPending' = calcPending - 1
    /\ UNCHANGED <<sortField, sortDirection, sortArg, sortClicks, isRunning,
                   runPending, calcButtonDisabled, runButtonDisabled,
                   OutsidePage>>

\* a click on the second button: runBatchJob up to its await, and the
\* render that follows the click
ClickRunBatchJob ==
    /\ ~runButtonDisabled
    /\ isRunning' = TRUE
    /\ runPending' = runPending + 1
    /\ toast' = "Starting Batch Job"
    /\ calcButtonDisabled' = CalculateDisabled(isCalculating, TRUE)
    /\ runButtonDisabled' = RunDisabled(isCalculating, TRUE)
    /\ UNCHANGED <<sortField, sortDirection, sortArg, sortClicks,
                   isCalculating, calcPending, OutsidePage>>

\* runBatchJob from its await to its end
RunBatchJobEnds ==
    /\ runPending > 0
    /\ \E outcome \in RequestOutcomes :
           toast' = IF outcome = "success" THEN "Batch Job Complete"
                    ELSE "Batch Job Failed"
    /\ isRunning' = FALSE
    /\ runPending' = runPending - 1
    /\ UNCHANGED <<sortField, sortDirection, sortArg, sortClicks,
                   isCalculating, calcPending, calcButtonDisabled,
                   runButtonDisabled, OutsidePage>>

\* the render after a flag was reset
Render ==
    /\ \/ calcButtonDisabled # CalculateDisabled(isCalculating, isRunning)
       \/ runButtonDisabled # RunDisabled(isCalculating, isRunning)
    /\ calcButtonDisabled' = CalculateDisabled(isCalculating, isRunning)
    /\ runButtonDisabled' = RunDisabled(isCalculating, isRunning)
    /\ UNCHANGED <<sortField, sortDirection, sortArg, sortClicks,
                   isCalculating, isRunning, calcPending, runPending, toast,
                   OutsidePage>>

NextPage ==
    \/ HandleSort
    \/ ClickCalculate
    \/ CalculateEnds
    \/ ClickRunBatchJob
    \/ RunBatchJobEnds
    \/ Render

SpecPage == InitPage /\ [][NextPage]_vars

\* ------------------------------------------------------------------------
\* Properties
\* ------------------------------------------------------------------------
Returned(f) == pc = "done" /\ op = f

\* y is x rounded to two decimals: a multiple of 1/100 at most 1/200 away
\* from x, the farther from zero when x lies halfway between two multiples
IsRounded2(x, y) ==
    /\ 100 % y.d = 0
    /\ RLe(MathAbs(RSub(y, x)), R(1, 200))
    /\ MathAbs(RSub(y, x)) = R(1, 200) => RGt(MathAbs(y), MathAbs(x))

\* the larger of two numbers, and the magnitude of a number, for the
\* reference formulas
Larger(a, b) == IF RGe(a, b) THEN a ELSE b

Magnitude(a) == IF RLt(a, Num(0)) THEN RSub(Num(0), a) ELSE a

ClaimTrueRange(high, low, previousClose) ==
    Larger(RSub(high, low),
           Larger(Magnitude(RSub(high, previousClose)),
                  Magnitude(RSub(low, previousClose))))

\* the true range of the pair (k-1, k) of the series, k in 1..n-1
PairTrueRange(k) ==
    ClaimTrueRange(data[k + 1].high, data[k + 1].low, data[k].close)

\* the sum of the first k pair true ranges
RECURSIVE PairSum(_)
PairSum(k) == IF k = 0 THEN Num(0) ELSE RAdd(PairSum(k - 1), PairTrueRange(k))

SeedMean == RDiv(PairSum(atrPeriod), Num(atrPeriod))

\* the reference recurrence after the first k pair true ranges, k >= atrPeriod
RECURSIVE Wilder(_)
Wilder(k) ==
    IF k <= atrPeriod THEN SeedMean
    ELSE RDiv(RAdd(RMul(Wilder(k - 1), Num(atrPeriod - 1)), PairTrueRange(k)),
              Num(atrPeriod))

\* C1: calculateATR throws its "Need at least period + 1 data points" error
\* exactly when the series has fewer than period + 1 points; with period + 1
\* points or more it returns and throws nothing.
C1_ATRThrowsIffTooShort ==
    Returned("calculateATR") =>
        /\ err.thrown <=> Len(data) < atrPeriod + 1
        /\ err.thrown => err.need = atrPeriod + 1 /\ err.what = "ATR"

\* the longest series calculateATR rejects
C1_Witness ==
    /\ Returned("calculateATR")
    /\ err.thrown
    /\ Len(data) = atrPeriod

\* C2: for n >= period + 1 calculateATR returns the reference recurrence: the
\* mean of the first period true ranges, smoothed by
\* atr = (atr*(period-1) + tr)/period over each later true range in order;
\* for n = period + 1 it is the seed mean itself.
C2_ATRIsWilderRecurrence ==
    (Returned("calculateATR") /\ ~err.thrown) =>
        /\ num = Wilder(Len(data) - 1)
        /\ Len(data) = atrPeriod + 1 => num = SeedMean

\* a series long enough for the smoothing to move the ATR off its seed
C2_Witness ==
    /\ Returned("calculateATR")
    /\ ~err.thrown
    /\ Len(data) > atrPeriod + 1
    /\ atrPeriod > 1
    /\ num # SeedMean

\* C3: calculateTrueRange returns max(high-low, |high-previousClose|,
\* |low-previousClose|), which is never negative, also when high < low.
C3_TrueRangeIsMaxAndNonNegative ==
    Returned("calculateTrueRange") =>
        /\ num = ClaimTrueRange(args[1], args[2], args[3])
        /\ RGe(num, Num(0))

\* a call with high < low
C3_Witness ==
    /\ Returned("calculateTrueRange")
    /\ RLt(args[1], args[2])
    /\ RLt(args[3], args[1])

\* the exact stop level of a calculateVolatilityStop call
ExactStaticStop == RSub(args[1], RMul(args[2], args[3]))

\* the exact stop distance of a calculateVolatilityStop call, in percent
ExactStaticPercentage ==
    RDiv(RMul(RMul(args[2], args[3]), Num(100)), args[1])

\* C4 as stated: the returned stopLoss is exactly currentPrice - atr*multiplier.
C4_StopLossExact ==
    Returned("calculateVolatilityStop") => stop.stopLoss = ExactStaticStop

\* C4 amended: the returned stopLoss is currentPrice - atr*multiplier rounded
\* to two decimals.
C4_StopLossRounded ==
    Returned("calculateVolatilityStop") => IsRounded2(ExactStaticStop, stop.stopLoss)

\* a call whose exact stop level has a third decimal
C4_Witness ==
    /\ Returned("calculateVolatilityStop")
    /\ stop.stopLoss # ExactStaticStop

\* C5: the recommendation is SELL when the percentage is above 10, BUY when
\* it is below 3 and HOLD otherwise, both comparisons strict: currentPrice 100,
\* atr 5, multiplier 2 (exactly 10) gives HOLD, and so does exactly 3.
C5_RecommendationThresholds ==
    Returned("calculateVolatilityStop") =>
        /\ RGt(ExactStaticPercentage, Num(10)) => stop.recommendation = "SELL"
        /\ RLt(ExactStaticPercentage, Num(3)) => stop.recommendation = "BUY"
        /\ (RGe(ExactStaticPercentage, Num(3)) /\ RLe(ExactStaticPercentage, Num(10)))
              => stop.recommendation = "HOLD"
        /\ args = <<Num(100), Num(5), Num(2)>> => stop.recommendation = "HOLD"

\* the boundary call of the claim
C5_Witness ==
    /\ Returned("calculateVolatilityStop")
    /\ args = <<Num(100), Num(5), Num(2)>>
    /\ ExactStaticPercentage = Num(10)
    /\ stop.recommendation = "HOLD"

\* the exact band width multiplier*atr of a trailing call
Band == RMul(multiplier, atr)

\* the series element the k-th returned point (k from 0) is computed from
SourceOf(k) == data[atrPeriod + k + 1]

\* C6 as stated: for n >= atrPeriod + 1 the call returns n - atrPeriod points,
\* the k-th carrying the date and the close of series element atrPeriod + k.
C6_PointsCarryDateAndClose ==
    (Returned("calculateVolatilityStopTrailing") /\ ~err.thrown) =>
        /\ Len(results) = Len(data) - atrPeriod
        /\ \A k \in 0..(Len(results) - 1) :
              /\ results[k + 1].date = SourceOf(k).date
              /\ results[k + 1].close = SourceOf(k).close

\* C6 amended: the call returns n - atrPeriod points, the k-th carrying the
\* date of series element atrPeriod + k and its close rounded to two decimals.
C6_PointsCarryDateAndRoundedClose ==
    (Returned("calculateVolatilityStopTrailing") /\ ~err.thrown) =>
        /\ Len(data) >= atrPeriod + 1
        /\ Len(results) = Len(data) - atrPeriod
        /\ \A k \in 0..(Len(results) - 1) :
              /\ results[k + 1].date = SourceOf(k).date
              /\ IsRounded2(SourceOf(k).close, results[k + 1].close)

\* a call returning several points, one of a close with a third decimal
C6_Witness ==
    /\ Returned("calculateVolatilityStopTrailing")
    /\ ~err.thrown
    /\ Len(results) >= 2
    /\ \E k \in 0..(Len(results) - 1) : results[k + 1].close # SourceOf(k).close

\* C7: between two consecutive points that both have trend UP the stopLoss
\* does not fall, and between two that both have trend DOWN it does not rise.
C7_StopMonotoneWithinTrend ==
    \A k \in 1..(Len(results) - 1) :
        /\ (results[k].trend = "UP" /\ results[k + 1].trend = "UP")
              => RGe(results[k + 1].stopLoss, results[k].stopLoss)
        /\ (results[k].trend = "DOWN" /\ results[k + 1].trend = "DOWN")
              => RLe(results[k + 1].stopLoss, results[k].stopLoss)

\* a returned sequence in which the stop rises within an up-trend
C7_Witness ==
    /\ Returned("calculateVolatilityStopTrailing")
    /\ \E k \in 1..(Len(results) - 1) :
          /\ results[k].trend = "UP"
          /\ results[k + 1].trend = "UP"
          /\ RGt(results[k + 1].stopLoss, results[k].stopLoss)

\* the exact stop of the first point: its close less the band
ExactFirstStop == RSub(SourceOf(0).close, Band)

\* C8 as stated: the first returned point has trend UP and
\* stopLoss = close - multiplier*atr.
C8_FirstPointExact ==
    Len(results) >= 1 =>
        /\ results[1].trend = "UP"
        /\ results[1].stopLoss = ExactFirstStop

\* C8 amended: the first returned point has trend UP and its stopLoss is
\* close - multiplier*atr rounded to two decimals, whatever the points before.
C8_FirstPointRounded ==
    Len(results) >= 1 =>
        /\ results[1].trend = "UP"
        /\ IsRounded2(ExactFirstStop, results[1].stopLoss)

\* a first point that follows a fall in price and whose exact stop has a
\* third decimal
C8_Witness ==
    /\ Returned("calculateVolatilityStopTrailing")
    /\ Len(results) >= 1
    /\ RLt(SourceOf(0).close, data[atrPeriod].close)
    /\ results[1].stopLoss # ExactFirstStop

\* a pass of the loop after the first one
LaterPass == pc = "loop" /\ i > atrPeriod /\ Len(results') = Len(results) + 1

\* the point a pass pushes
Pushed == results'[Len(results')]

\* C9: on a pass after the first that starts with trend UP: when
\* price < previousStop the trend becomes DOWN and the stop is
\* price + multiplier*atr; otherwise, price = previousStop included, the
\* trend stays UP and the stop is max(previousStop, price - multiplier*atr).
\* The stop is the value the next pass reads as previousStop; the point
\* carries the trend and that stop rounded to two decimals.
C9_UpTrendStep ==
    [][(LaterPass /\ trend = "UP") =>
        LET price == At(data, i).close
        IN  /\ RLt(price, previousStop) =>
                 /\ trend' = "DOWN"
                 /\ previousStop' = RAdd(price, Band)
            /\ ~RLt(price, previousStop) =>
                 /\ trend' = "UP"
                 /\ previousStop' = Larger(previousStop, RSub(price, Band))
            /\ Pushed.trend = trend'
            /\ IsRounded2(previousStop', Pushed.stopLoss)]_vars

\* an up-trend that held for one pass and turned down on the next
C9_Witness ==
    /\ Returned("calculateVolatilityStopTrailing")
    /\ Len(results) >= 3
    /\ results[1].trend = "UP"
    /\ results[2].trend = "UP"
    /\ results[3].trend = "DOWN"

\* C10: on a pass after the first that starts with trend DOWN: when
\* price > previousStop the trend becomes UP and the stop is
\* price - multiplier*atr; otherwise, price = previousStop included, the
\* trend stays DOWN and the stop is min(previousStop, price + multiplier*atr).
C10_DownTrendStep ==
    [][(LaterPass /\ trend = "DOWN") =>
        LET price == At(data, i).close
        IN  /\ RGt(price, previousStop) =>
                 /\ trend' = "UP"
                 /\ previousStop' = RSub(price, Band)
            /\ ~RGt(price, previousStop) =>
                 /\ trend' = "DOWN"
                 /\ previousStop' =
                       (IF RLe(previousStop, RAdd(price, Band))
                        THEN previousStop ELSE RAdd(price, Band))
            /\ Pushed.trend = trend'
            /\ IsRounded2(previousStop', Pushed.stopLoss)]_vars

\* a down-trend that turned up again
C10_Witness ==
    /\ Returned("calculateVolatilityStopTrailing")
    /\ Len(results) >= 3
    /\ results[2].trend = "DOWN"
    /\ results[3].trend = "UP"

\* any pass of the loop
AnyPass == pc = "loop" /\ Len(results') = Len(results) + 1

\* the distance of a price from a stop, in percent of the price
DistancePercent(price, stopLevel) ==
    RDiv(RMul(Magnitude(RSub(price, stopLevel)), Num(100)), price)

\* C11: with distance% = |price - stop| / price * 100 taken after the trend
\* update, the signal of a point is BUY iff the trend is UP, price > stop and
\* distance% < 3, SELL iff the trend is DOWN, price < stop and distance% < 3,
\* and HOLD in every other case; so no DOWN point says BUY and no UP point
\* says SELL.
C11_SignalRule ==
    [][AnyPass =>
        LET price == At(data, i).close
            near == RLt(DistancePercent(price, previousStop'), Num(3))
            buy == trend' = "UP" /\ RGt(price, previousStop') /\ near
            sell == trend' = "DOWN" /\ RLt(price, previousStop') /\ near
        IN  /\ Pushed.trend = trend'
            /\ Pushed.signal = "BUY" <=> buy
            /\ Pushed.signal = "SELL" <=> sell
            /\ Pushed.signal = "HOLD" <=> (~buy /\ ~sell)
            /\ Pushed.signal = "BUY" => Pushed.trend = "UP"
            /\ Pushed.signal = "SELL" => Pushed.trend = "DOWN"]_vars

\* a returned sequence with a BUY point and a SELL point
C11_Witness ==
    /\ Returned("calculateVolatilityStopTrailing")
    /\ \E k \in 1..Len(results) : results[k].signal = "BUY"
    /\ \E k \in 1..Len(results) : results[k].signal = "SELL"

\* inside or after a call of calculateVolatilityStopTrailing that did not throw
InTrailing ==
    /\ op = "calculateVolatilityStopTrailing"
    /\ pc \in {"loop", "done"}
    /\ ~err.thrown

\* the reference ATR of the whole series
SeriesATR == Wilder(Len(data) - 1)

\* C12 as stated: one ATR is computed over the whole series and used at every
\* pass, and every returned point carries that value, calculateATR(series,
\* atrPeriod).
C12_PointsCarryATR ==
    InTrailing =>
        /\ atr = SeriesATR
        /\ \A k \in 1..Len(results) : results[k].atr = SeriesATR

\* C12 amended: one ATR, calculateATR(series, atrPeriod), is computed over the
\* whole series and used unrounded at every pass; every returned point
\* carries the same atr value, that ATR rounded to two decimals.
C12_PointsCarryRoundedATR ==
    InTrailing =>
        /\ atr = SeriesATR
        /\ \A k \in 1..Len(results) :
              /\ IsRounded2(SeriesATR, results[k].atr)
              /\ results[k].atr = results[1].atr

\* several returned points of a series longer than its warm-up window whose
\* ATR has a third decimal
C12_Witness ==
    /\ Returned("calculateVolatilityStopTrailing")
    /\ Len(results) >= 2
    /\ results[2].atr # SeriesATR
    /\ SeriesATR # SeedMean

\* a call of calculateATR or calculateVolatilityStopTrailing has ended
SeriesCallEnded ==
    Returned("calculateATR") \/ Returned("calculateVolatilityStopTrailing")

\* C13 as stated: on a series shorter than period + 1 both functions fail
\* with an error that carries the required length period + 1 and the actual
\* length of the series, and produce no partial result.
C13_ErrorCarriesRequiredAndActual ==
    (SeriesCallEnded /\ Len(data) < atrPeriod + 1) =>
        /\ err.thrown
        /\ (atrPeriod + 1) \in MessageNumbers(err)
        /\ Len(data) \in MessageNumbers(err)
        /\ results = <<>>

\* C13 amended: on a series shorter than period + 1 both functions fail with
\* an Error whose message names the required length period + 1 and no other
\* number (10 points with period 14 give 15), and produce no partial result.
C13_ErrorCarriesRequiredOnly ==
    (SeriesCallEnded /\ Len(data) < atrPeriod + 1) =>
        /\ err.thrown
        /\ MessageNumbers(err) = {atrPeriod + 1}
        /\ (Len(data) = 10 /\ atrPeriod = 14) => err.need = 15
        /\ results = <<>>
        /\ num = Num(0)

\* the documented scenario: ten points, period 14, on the trailing stop
C13_Witness ==
    /\ Returned("calculateVolatilityStopTrailing")
    /\ Len(data) = 10
    /\ atrPeriod = 14
    /\ err.thrown
    /\ err.need = 15

\* calculateATR has returned a value for the series in reversed order
ReturnedReversed == Returned("calculateATR on reversed series") /\ ~err.thrown

\* the true ranges of the series are not all equal
TrueRangesDiffer ==
    \E j \in 1..(Len(data) - 1), k \in 1..(Len(data) - 1) :
        PairTrueRange(j) # PairTrueRange(k)

\* every point of the series has high = low = close
FlatBars ==
    \A k \in 1..Len(data) : data[k].high = data[k].close /\ data[k].low = data[k].close

\* C14 as stated: reversing a valid series changes the result of calculateATR
\* whenever the true ranges of the series are not all equal.
C14_ReversalChangesATR ==
    (ReturnedReversed /\ TrueRangesDiffer) => num # SeriesATR

\* C14 amended: reversing a valid series can change the result, but not for
\* every series with unequal true ranges: a series of exactly period + 1
\* points with high = low = close has the same ATR in both orders.
C14_ReversalKeepsATROfFlatSeedWindow ==
    (ReturnedReversed /\ FlatBars /\ Len(data) = atrPeriod + 1) => num = SeriesATR

\* such a series with unequal true ranges, its ATR unchanged by the reversal
C14_Witness ==
    /\ ReturnedReversed
    /\ FlatBars
    /\ Len(data) = atrPeriod + 1
    /\ TrueRangesDiffer
    /\ num = SeriesATR

\* the stop level recomputed from the returned percentage of a
\* calculateVolatilityStop call: currentPrice * (1 - stopLossPercentage/100)
StopFromReturnedPercentage ==
    RMul(args[1], RSub(Num(1), RDiv(stop.stopLossPercentage, Num(100))))

\* how far that is from the returned stopLoss
RoundTripError == Magnitude(RSub(StopFromReturnedPercentage, stop.stopLoss))

\* C15 as stated: for currentPrice > 0 the returned fields agree,
\* currentPrice * (1 - stopLossPercentage/100) equals the returned stopLoss
\* within the rounding tolerance of the 2-decimal values, 0.01.
C15_RoundTripWithinACent ==
    (Returned("calculateVolatilityStop") /\ RGt(args[1], Num(0))) =>
        RLe(RoundTripError, R(1, 100))

\* C15 amended: for currentPrice > 0 the two agree within
\* 0.005 + currentPrice * 0.00005: the rounding of stopLoss plus the rounding
\* of the percentage scaled by the price; that is within 0.01 only for
\* currentPrice <= 100.
C15_RoundTripWithinScaledTolerance ==
    (Returned("calculateVolatilityStop") /\ RGt(args[1], Num(0))) =>
        /\ RLe(RoundTripError, RAdd(R(1, 200), RMul(args[1], R(1, 20000))))
        /\ RLe(args[1], Num(100)) => RLe(RoundTripError, R(1, 100))

\* a call at price 1000 whose round trip is off by more than 0.01
C15_Witness ==
    /\ Returned("calculateVolatilityStop")
    /\ args[1] = Num(1000)
    /\ RGt(RoundTripError, R(1, 100))

\* calculateATR and then calculateVolatilityStop have returned
ReturnedATRThenStop ==
    Returned("calculateATR, calculateVolatilityStop") /\ ~err.thrown

\* every point of the series has high = low = close = c
ConstantSeries(c) ==
    \A k \in 1..Len(data) :
        data[k].high = c /\ data[k].low = c /\ data[k].close = c

\* C17: for a series whose points all have high = low = close = the same
\* constant and length >= period + 1, calculateATR returns 0, and
\* calculateVolatilityStop on that ATR with the constant as currentPrice
\* returns stopLossPercentage 0 and recommendation BUY.
C17_ConstantSeriesGivesBuy ==
    (ReturnedATRThenStop /\ ConstantSeries(args[1])) =>
        /\ Len(data) >= atrPeriod + 1
        /\ num = Num(0)
        /\ args[2] = Num(0)
        /\ stop.stopLossPercentage = Num(0)
        /\ stop.recommendation = "BUY"

\* the documented scenario: fifteen points of 100, period 14
C17_Witness ==
    /\ ReturnedATRThenStop
    /\ Len(data) = 15
    /\ atrPeriod = 14
    /\ ConstantSeries(Num(100))
    /\ args[1] = Num(100)
    /\ stop.recommendation = "BUY"

\* ------------------------------------------------------------------------
\* Trend and signal classifier
\* ------------------------------------------------------------------------
TrendCalled ==
    dmaOut.op \in {"classifyTrend", "computeMovingAverages, classifyTrend"}

FromCloses == dmaOut.op = "computeMovingAverages, classifyTrend"

\* the price the trend was classified at
TrendPrice == IF FromCloses THEN closes[Len(closes)] ELSE dmaIn.price

BullishCase ==
    /\ RGt(TrendPrice, dmaOut.ma200)
    /\ RGt(dmaOut.ma50, dmaOut.ma150)
    /\ RGt(dmaOut.ma150, dmaOut.ma200)

BearishCase ==
    /\ RLt(TrendPrice, dmaOut.ma200)
    /\ RLt(dmaOut.ma50, dmaOut.ma150)
    /\ RLt(dmaOut.ma150, dmaOut.ma200)

StrictlyAscending(s) == \A k \in 1..(Len(s) - 1) : RLt(s[k], s[k + 1])

SignalCalled == dmaOut.op = "classifySignal"

\* the condition of the rule listed as number r holds for the input
Holds(r) == RuleHolds(r, dmaIn.price, MasOf(dmaIn), dmaIn.recentHistory)

SignalOf ==
    <<"NO_TRADE", "BUY_SETUP_A", "BUY_SETUP_B", "SELL_PARTIAL",
      "SELL_MAJORITY", "SELL_FULL", "SHORT_SETUP", "HOLD">>

StrengthOf ==
    <<"NONE", "STRONG", "MODERATE", "WEAK", "MODERATE", "STRONG",
      "MODERATE", "NONE">>

\* the signal and strength of rule r were returned
Returns(r) == dmaOut.signal = SignalOf[r] /\ dmaOut.strength = StrengthOf[r]

\* the lowest-numbered rule of rules whose condition holds
LowestOf(rules) ==
    CHOOSE r \in rules : Holds(r) /\ \A q \in rules : Holds(q) => r <= q

BelowMa200 == RLt(dmaIn.price, dmaIn.ma200)

ServiceSelected == service # NoService

\* the variable is set to name, in whatever case
NamedBy(env, name) ==
    /\ env.set
    /\ Len(env.value) = Len(name)
    /\ \A k \in 1..Len(name) : ToLowerCaseChar(env.value[k]) = name[k]

HasIndianSuffix(s) ==
    \E x \in {DotNS, DotBO, DotBSE} : EndsWith(s, x)

\* C21: getStockServiceForSymbol returns the NSE service for every symbol
\* ending in .NS, .BO or .BSE whatever STOCK_API_PROVIDER is, and for every
\* other symbol the provider the variable names in any case (twelvedata,
\* alphavantage, finnhub), Finnhub when it is unset or names none of them.
C21_ServiceBySuffixThenProvider ==
    ServiceSelected =>
        IF HasIndianSuffix(symbol) THEN service = "NSEService"
        ELSE /\ NamedBy(providerEnv, Twelvedata)
                    <=> service = "TwelveDataService"
             /\ NamedBy(providerEnv, Alphavantage)
                    <=> service = "AlphaVantageService"
             /\ (~NamedBy(providerEnv, Twelvedata)
                    /\ ~NamedBy(providerEnv, Alphavantage))
                    <=> service = "FinnhubService"

\* a .BSE symbol got the NSE service although the variable names Twelve Data
C21_Witness ==
    /\ EndsWith(symbol, DotBSE)
    /\ Len(symbol) > Len(DotBSE)
    /\ providerEnv = SetTo(Twelvedata)
    /\ service = "NSEService"

\* C29 as stated: formatSymbol returns every symbol with an Indian suffix
\* (.NS, .BO, .BSE) unchanged, and formatSymbol of its result is its
\* result. Violated: a symbol ending in .BSE gets .NS appended.
C29_IndianSymbolsUnchangedAndIdempotent ==
    /\ (Len(formatted) >= 1 /\ HasIndianSuffix(symbol))
          => formatted[1] = symbol
    /\ Len(formatted) = 2 => formatted[2] = formatted[1]

\* ------------------------------------------------------------------------
\* Batch price fetching
\* ------------------------------------------------------------------------
Range(s) == {s[k] : k \in 1..Len(s)}

BatchRequestFailed ==
    nseResponse.kind \in {"network error", "http error", "status error"}

\* the request for one stock gave no price: it failed, or its price is not
\* positive
QuoteFailed(response) == ~response.ok \/ response.price <= 0

FetchedSymbols == [k \in 1..Len(batchFetched) |-> batchFetched[k].symbol]

\* the k-th request for one stock is the last one made for its symbol
LastFetchOf(k) ==
    \A j \in (k + 1)..Len(batchFetched) :
        batchFetched[j].symbol # batchFetched[k].symbol

\* C22: NSEService.batchFetchPrices never rejects; when its batch request
\* fails it fetches the requested symbols one at a time in their order, a
\* failed fetch not stopping the next ones, and returns a map with an
\* entry for each requested symbol, 0 for each symbol whose fetch failed.
C22_NSEBatchNeverRejectsAndFallsBack ==
    /\ batchPc # "rejected"
    /\ (batchPc = "fallback" /\ BatchRequestFailed)
          => FetchedSymbols = SubSeq(nseSymbols, 1, batchK - 1)
    /\ (batchEntry = "NSEService.batchFetchPrices" /\ batchPc = "done"
            /\ BatchRequestFailed)
          => /\ FetchedSymbols = nseSymbols
             /\ DOMAIN batchPrices = Range(nseSymbols)
             /\ \A k \in 1..Len(batchFetched) :
                    LastFetchOf(k) =>
                        batchPrices[batchFetched[k].symbol] =
                            IF QuoteFailed(batchFetched[k].response) THEN 0
                            ELSE batchFetched[k].response.price

\* the batch request failed, the first of two symbols could not be fetched
\* and the second one was: the map holds 0 and the fetched price
C22_Witness ==
    /\ batchEntry = "NSEService.batchFetchPrices"
    /\ batchPc = "done"
    /\ BatchRequestFailed
    /\ Len(nseSymbols) = 2
    /\ nseSymbols[1] # nseSymbols[2]
    /\ ~batchFetched[1].response.ok
    /\ batchPrices[nseSymbols[1]] = 0
    /\ batchPrices[nseSymbols[2]] = 5

\* C27 as stated: the map batchFetchPrices of stock-api.ts returns has an
\* entry for every requested symbol. Violated: an Indian symbol the NSE
\* batch response omits, or reports with a price that is not positive,
\* has no entry.
C27_EverySymbolHasAnEntry ==
    (batchEntry = "batchFetchPrices" /\ batchPc = "done")
        => DOMAIN batchPrices = Range(batchSymbols)

\* the entries of the response the loop of NSEService.batchFetchPrices has
\* been through
EntriesSeen ==
    {nseResponse.entries[k] :
        k \in 1..(IF batchK - 1 < Len(nseResponse.entries) THEN batchK - 1
                  ELSE Len(nseResponse.entries))}

\* C28 as stated: in NSEService.batchFetchPrices a price of the response
\* is stored only under the requested symbol whose formatted form equals
\* its ticker. Violated: the price of a ticker is stored under the first
\* requested symbol that starts with the ticker's base name.
C28_PriceOnlyUnderItsOwnSymbol ==
    batchPc = "extract" =>
        \A s \in DOMAIN nsePrices :
            \E entry \in EntriesSeen :
                /\ entry.ticker = formatSymbol(s)
                /\ entry.price = nsePrices[s]

\* ------------------------------------------------------------------------
\* POST /api/stock/volatility
\* ------------------------------------------------------------------------
PostAnswered == postPc = "done" /\ postBody.isArray

\* C23 as stated: the response to a POST with a stocks array has exactly
\* one result per requested stock, in request order, success = false for
\* the stocks that failed, and totalProcessed = totalSuccessful +
\* totalFailed. Violated: a null element of stocks makes the catch block of
\* the loop throw, and the response is the error response without results.
C23_OneResultPerStockInOrder ==
    PostAnswered =>
        /\ Len(postResponse.results) = Len(postBody.stocks)
        /\ \A k \in 1..Len(postBody.stocks) :
               postResponse.results[k].symbol = postBody.stocks[k].symbol
        /\ postResponse.totalProcessed = Len(postBody.stocks)
        /\ postResponse.totalProcessed =
               postResponse.totalSuccessful + postResponse.totalFailed

\* ------------------------------------------------------------------------
\* Batch page
\* ------------------------------------------------------------------------
SortNullTogether == (sortField = Null) <=> (sortDirection = Null)

\* handleSort was called in this step
SortCalled == sortClicks' = sortClicks + 1

\* C24: handleSort on the sorted field turns ascending into descending
\* and descending into unsorted (sortField and sortDirection both null);
\* handleSort on any other field, also from unsorted, makes that field
\* ascending; sortField is null exactly when sortDirection is.
C24_SortCycle ==
    /\ []SortNullTogether
    /\ [][SortCalled =>
              IF sortField = sortArg'
              THEN /\ sortDirection = "asc"
                        => sortField' = sortField /\ sortDirection' = "desc"
                   /\ sortDirection = "desc"
                        => sortField' = Null /\ sortDirection' = Null
              ELSE sortField' = sortArg' /\ sortDirection' = "asc"]_vars

\* three calls on the same field: ascending, descending, unsorted
C24_Witness ==
    /\ sortClicks = 3
    /\ sortArg = "stopLoss"
    /\ sortField = Null
    /\ sortDirection = Null

\* C30: isCalculating and isRunning are never both true, neither operation
\* has two calls that have not ended, and a flag is false once no call of
\* its operation is left.
C30_OneOperationAtATime ==
    /\ ~(isCalculating /\ isRunning)
    /\ calcPending <= 1
    /\ runPending <= 1
    /\ calcPending = 0 => ~isCalculating
    /\ runPending = 0 => ~isRunning

\* the batch job runs after a calculation that failed, while the first
\* button is shown disabled
C30_Witness ==
    /\ isRunning
    /\ runPending = 1
    /\ calcPending = 0
    /\ calcButtonDisabled
    /\ toast = "Starting Batch Job"

\* the last branch of the signal decision: neither UP with the price above
\* the stop nor DOWN with the price below it
FinalHoldBranch(tr, price, stopLevel) ==
    /\ ~(tr = "UP" /\ RGt(price, stopLevel))
    /\ ~(tr = "DOWN" /\ RLt(price, stopLevel))

\* C25: with multiplier*atr >= 0, after the trend update of every pass and
\* before rounding, trend UP implies close >= stopLoss and trend DOWN implies
\* close <= stopLoss, so the last HOLD branch of the signal decision is
\* reached only when close = stopLoss.
C25_TrendSideOfStop ==
    [][(AnyPass /\ RGe(RMul(multiplier, atr), Num(0))) =>
        LET price == At(data, i).close
        IN  /\ trend' = "UP" => RGe(price, previousStop')
            /\ trend' = "DOWN" => RLe(price, previousStop')
            /\ FinalHoldBranch(trend', price, previousStop')
                   => (RLe(price, previousStop') /\ RGe(price, previousStop'))]_vars

\* a later pass has left the trend DOWN with the close strictly below the
\* stop
C25_Witness ==
    /\ InTrailing
    /\ i > atrPeriod + 1
    /\ trend = "DOWN"
    /\ RLt(At(data, i - 1).close, previousStop)
    /\ results[Len(results)].trend = "DOWN"

\* C26 as stated: the recommendation agrees with the stopLossPercentage of
\* the same record: SELL iff the returned percentage is above 10, BUY iff it
\* is below 3, HOLD otherwise.
C26_RecommendationMatchesReturnedPercentage ==
    Returned("calculateVolatilityStop") =>
        /\ stop.recommendation = "SELL" <=> RGt(stop.stopLossPercentage, Num(10))
        /\ stop.recommendation = "BUY" <=> RLt(stop.stopLossPercentage, Num(3))
        /\ stop.recommendation = "HOLD" <=>
              (RGe(stop.stopLossPercentage, Num(3))
               /\ RLe(stop.stopLossPercentage, Num(10)))

\* C26 amended: the recommendation agrees with the percentage before
\* rounding (SELL iff it is above 10, BUY iff it is below 3, HOLD otherwise)
\* and the returned percentage is that value rounded to two decimals; so a
\* returned percentage above 10 carries SELL and one below 3 carries BUY,
\* while a returned 10.00 may carry SELL or HOLD and a returned 3.00 BUY or
\* HOLD.
C26_RecommendationMatchesExactPercentage ==
    Returned("calculateVolatilityStop") =>
        /\ stop.recommendation = "SELL" <=> RGt(ExactStaticPercentage, Num(10))
        /\ stop.recommendation = "BUY" <=> RLt(ExactStaticPercentage, Num(3))
        /\ stop.recommendation = "HOLD" <=>
              (RGe(ExactStaticPercentage, Num(3))
               /\ RLe(ExactStaticPercentage, Num(10)))
        /\ IsRounded2(ExactStaticPercentage, stop.stopLossPercentage)
        /\ RGt(stop.stopLossPercentage, Num(10)) => stop.recommendation = "SELL"
        /\ RLt(stop.stopLossPercentage, Num(3)) => stop.recommendation = "BUY"
        /\ stop.recommendation = "SELL" => RGe(stop.stopLossPercentage, Num(10))
        /\ stop.recommendation = "BUY" => RLe(stop.stopLossPercentage, Num(3))

\* currentPrice 1000, atr 29.97, multiplier 1: the percentage 2.997 is
\* returned as 3.00 next to BUY
C26_Witness ==
    /\ Returned("calculateVolatilityStop")
    /\ args = <<Num(1000), R(2997, 100), Num(1)>>
    /\ stop.stopLossPercentage = Num(3)
    /\ stop.recommendation = "BUY"

====
